---- MODULE Spec2Model ----
(***************************************************************************)
(* Board-game rule engine of src/main.py: Board, Rule.undo, GomokuRule,    *)
(* GoRule and the GameController commands that drive them.                 *)
(*                                                                         *)
(* A position is the pair <<x, y>>; the grid maps positions to cell codes  *)
(* (the source indexes grid[y][x]).  A board is the record                 *)
(* [size, grid, history]; a history entry is <<x, y, color, captured>>     *)
(* with captured a sequence of positions, as in the source's tuples.       *)
(* Board objects live in a two-slot heap so that the controller's board    *)
(* and the rule engine's board are references that may or may not alias.   *)
(***************************************************************************)
EXTENDS Integers, Sequences, FiniteSets, TLC

VARIABLES
    heap,         \* Board objects by reference: [BoardRefs -> board record | NoBoard]
    ctlBoard,     \* GameController.board: a reference, 0 for None
    rule,         \* GameController.rule / the rule engine: [name, board, passes_in_row]
    players,      \* GameController.players: the colours in seat order
    current_idx,  \* GameController.current_idx
    disk,         \* the file command_save writes and command_load reads
    pc,           \* "running", or "exited" once a command called exit()
    last,         \* the last call and what it returned
    applied,      \* apply_move calls that returned, on the rule's current board
    undone,       \* undo calls that returned, on the rule's current board
    steps,        \* calls that added to a board or wrote the file (for the bound)
    undos,        \* undo calls that returned in this behaviour (for the bound)
    lastApplied   \* kind of the latest apply_move on this rule engine

vars == <<heap, ctlBoard, rule, players, current_idx, disk, pc, last,
          applied, undone, steps, undos, lastApplied>>

\* ------------------------------------------------------------------ bounds
\* Stone placements are drawn from the first PlayCount cells of PlayOrder.
PlayCount == 4
\* apply_move, place_stone, Board() and save calls explored beyond the initial
\* position.
MaxApplied == 2
\* undo calls explored.
MaxUndone == 1
\* The `move x y` command and the calls on the Board itself are tried on the
\* first CtlPlayCount cells of PlayOrder.
CtlPlayCount == 2

\* --------------------------------------------------------- cell codes
EMPTY == "."
BLACK == "B"
WHITE == "W"
Colors == {BLACK, WHITE}

\* Board.__init__ accepts 8 <= size <= 19.
MinSize == 8
MaxSize == 19

\* The pass sentinel of GoRule.apply_move.
PassCoord == -1

\* --------------------------------------------------------------- Board
Pos(n) == (0 .. n - 1) \X (0 .. n - 1)

\* Board.__init__ (for a size it accepts).
NewBoard(n) ==
    [size |-> n, grid |-> [p \in Pos(n) |-> EMPTY], history |-> <<>>]

sizeOkAboveMin(n) == MinSize < n /\ n <= MaxSize

SizeOk(n) == MinSize <= n /\ n <= MaxSize

in_bounds(b, x, y) == 0 <= x /\ x < b.size /\ 0 <= y /\ y < b.size

get(b, x, y) == b.grid[<<x, y>>]

set(b, x, y, color) == [b EXCEPT !.grid[<<x, y>>] = color]

placeStoneOverwrites(b, x, y, color) ==
    IF ~in_bounds(b, x, y) THEN [err |-> "OutOfBounds", board |-> b]
    ELSE [err |-> "none", board |-> set(b, x, y, color)]

\* Board.place_stone: the error raised ("none" when it returns) and the board
\* afterwards.
place_stone(b, x, y, color) ==
    IF ~in_bounds(b, x, y) THEN [err |-> "OutOfBounds", board |-> b]
    ELSE IF get(b, x, y) # EMPTY THEN [err |-> "Occupied", board |-> b]
    ELSE [err |-> "none", board |-> set(b, x, y, color)]

\* Board.remove_stones: the loop over the list, in order.
RECURSIVE remove_stones(_, _)
remove_stones(b, stones) ==
    IF stones = <<>> THEN b
    ELSE remove_stones(set(b, Head(stones)[1], Head(stones)[2], EMPTY),
                       Tail(stones))

\* ---------------------------------------------------------------- Rule
opposite(color) == IF color = WHITE THEN BLACK ELSE WHITE

RECURSIVE restoreMoverColor(_, _, _)
restoreMoverColor(b, captured, color) ==
    IF captured = <<>> THEN b
    ELSE restoreMoverColor(set(b, Head(captured)[1], Head(captured)[2], color),
                           Tail(captured), color)

\* The loop of Rule.undo that puts the captured stones back.
RECURSIVE restore_captured(_, _, _)
restore_captured(b, captured, color) ==
    IF captured = <<>> THEN b
    ELSE restore_captured(
             set(b, Head(captured)[1], Head(captured)[2], opposite(color)),
             Tail(captured), color)

undoKeepsCaptured(b) ==
    IF b.history = <<>> THEN [err |-> "EmptyHistory", board |-> b]
    ELSE LET h == b.history[Len(b.history)]
             popped == [b EXCEPT !.history = SubSeq(b.history, 1, Len(b.history) - 1)]
         IN [err |-> "none", board |-> set(popped, h[1], h[2], EMPTY)]

\* Rule.undo: the error raised ("none" when it returns) and the board afterwards.
undo(b) ==
    IF b.history = <<>> THEN [err |-> "EmptyHistory", board |-> b]
    ELSE LET h == b.history[Len(b.history)]
             popped == [b EXCEPT !.history = SubSeq(b.history, 1, Len(b.history) - 1)]
             cleared == set(popped, h[1], h[2], EMPTY)
         IN [err |-> "none", board |-> restore_captured(cleared, h[4], h[3])]

\* ---------------------------------------------------------- GomokuRule
gomoku_is_valid_move(b, x, y, color) ==
    in_bounds(b, x, y) /\ get(b, x, y) = EMPTY

\* The run length _five_in_a_row asks for.
WinLength == 5

directions == << <<1, 0>>, <<0, 1>>, <<1, 1>>, <<1, -1>> >>

\* One while loop of _five_in_a_row: the cells of colour `color` met from
\* (i, j) stepping by (dx, dy) until the edge or another cell code.
RECURSIVE count_run(_, _, _, _, _, _)
count_run(b, i, j, dx, dy, color) ==
    IF in_bounds(b, i, j) /\ get(b, i, j) = color
    THEN 1 + count_run(b, i + dx, j + dy, dx, dy, color)
    ELSE 0

\* cnt of _five_in_a_row for one direction.
axis_count(b, x, y, color, d) ==
    1 + count_run(b, x + d[1], y + d[2], d[1], d[2], color)
      + count_run(b, x - d[1], y - d[2], 0 - d[1], 0 - d[2], color)

fiveForwardOnly(b, x, y, color) ==
    \E k \in 1 .. Len(directions) :
        1 + count_run(b, x + directions[k][1], y + directions[k][2],
                      directions[k][1], directions[k][2], color) >= WinLength

_five_in_a_row(b, x, y, color) ==
    \E k \in 1 .. Len(directions) :
        axis_count(b, x, y, color, directions[k]) >= WinLength

\* The draw test of GomokuRule.apply_move.
board_full(b) == \A p \in Pos(b.size) : b.grid[p] # EMPTY

gomokuNoDraw(b, x, y, color) ==
    LET placed == place_stone(b, x, y, color) IN
    IF placed.err # "none" THEN [err |-> placed.err, board |-> b, ret |-> FALSE]
    ELSE LET b1 == [placed.board EXCEPT
                      !.history = Append(@, <<x, y, color, <<>> >>)]
         IN [err |-> "none", board |-> b1, ret |-> _five_in_a_row(b1, x, y, color)]

\* GomokuRule.apply_move: the error raised, the board afterwards and the value
\* returned (terminal).
gomoku_apply_move(b, x, y, color) ==
    LET placed == place_stone(b, x, y, color) IN
    IF placed.err # "none" THEN [err |-> placed.err, board |-> b, ret |-> FALSE]
    ELSE LET b1 == [placed.board EXCEPT
                      !.history = Append(@, <<x, y, color, <<>> >>)]
         IN [err |-> "none", board |-> b1,
             ret |-> IF _five_in_a_row(b1, x, y, color) THEN TRUE
                     ELSE board_full(b1)]

\* -------------------------------------------------------------- GoRule
neighbor_steps == << <<1, 0>>, <<-1, 0>>, <<0, 1>>, <<0, -1>> >>

\* GoRule._neighbors: the in-bounds neighbours, in the order it yields them.
_neighbors(b, x, y) ==
    LET all == [k \in 1 .. Len(neighbor_steps) |->
                    <<x + neighbor_steps[k][1], y + neighbor_steps[k][2]>>]
        inside(p) == in_bounds(b, p[1], p[2])
    IN SelectSeq(all, inside)

\* The while loop of GoRule._group_dfs on its four locals.
RECURSIVE dfs_loop(_, _, _, _, _, _)
dfs_loop(b, color, stack, visited, liberties, group) ==
    IF stack = <<>> THEN [group |-> group, liberties |-> liberties]
    ELSE LET cur == stack[Len(stack)]
             rest == SubSeq(stack, 1, Len(stack) - 1)
         IN IF cur \in visited
            THEN dfs_loop(b, color, rest, visited, liberties, group)
            ELSE LET ns == _neighbors(b, cur[1], cur[2])
                     same(p) == get(b, p[1], p[2]) = color
                     libs == {ns[k] : k \in {k \in 1 .. Len(ns) :
                                  get(b, ns[k][1], ns[k][2]) = EMPTY}}
                 IN dfs_loop(b, color, rest \o SelectSeq(ns, same),
                             visited \cup {cur}, liberties \cup libs,
                             Append(group, cur))

groupDfsStartOnly(b, x, y, color) ==
    LET ns == _neighbors(b, x, y)
    IN [group |-> << <<x, y>> >>,
        liberties |-> {ns[k] : k \in {k \in 1 .. Len(ns) :
                           get(b, ns[k][1], ns[k][2]) = EMPTY}}]

\* GoRule._group_dfs: the list `group` and the set `liberties` it returns.
_group_dfs(b, x, y, color) == dfs_loop(b, color, << <<x, y>> >>, {}, {}, <<>>)

_group_has_liberty(b, x, y, color) ==
    Cardinality(_group_dfs(b, x, y, color).liberties) > 0

\* The for loop of GoRule._capture_opponents over the neighbours `ns`.
RECURSIVE capture_loop(_, _, _, _)
capture_loop(b, ns, opponent, captured) ==
    IF ns = <<>> THEN captured
    ELSE LET n == Head(ns) IN
         IF get(b, n[1], n[2]) = opponent
         THEN LET g == _group_dfs(b, n[1], n[2], opponent) IN
              capture_loop(b, Tail(ns), opponent,
                           IF Cardinality(g.liberties) = 0
                           THEN captured \o g.group ELSE captured)
         ELSE capture_loop(b, Tail(ns), opponent, captured)

captureFirstStoneOnly(b, x, y, color, pretend) ==
    LET captured == capture_loop(b, _neighbors(b, x, y), opposite(color), <<>>)
        first == IF captured = <<>> THEN <<>> ELSE <<Head(captured)>>
    IN [board |-> IF ~pretend /\ first # <<>>
                  THEN remove_stones(b, first) ELSE b,
        captured |-> first]

captureIgnoresPretend(b, x, y, color, pretend) ==
    LET captured == capture_loop(b, _neighbors(b, x, y), opposite(color), <<>>)
    IN [board |-> remove_stones(b, captured), captured |-> captured]

\* GoRule._capture_opponents: the board afterwards and the list returned.
_capture_opponents(b, x, y, color, pretend) ==
    LET captured == capture_loop(b, _neighbors(b, x, y), opposite(color), <<>>)
    IN [board |-> IF ~pretend /\ captured # <<>>
                  THEN remove_stones(b, captured) ELSE b,
        captured |-> captured]

goValidIgnoresCaptures(b, x, y, color) ==
    IF ~(in_bounds(b, x, y) /\ get(b, x, y) = EMPTY)
    THEN [ret |-> FALSE, board |-> b]
    ELSE LET b1 == place_stone(b, x, y, color).board
         IN [ret |-> _group_has_liberty(b1, x, y, color),
             board |-> set(b1, x, y, EMPTY)]

goValidAllowsSuicide(b, x, y, color) ==
    [ret |-> in_bounds(b, x, y) /\ get(b, x, y) = EMPTY, board |-> b]

\* GoRule.is_valid_move: the value returned and the board afterwards.
go_is_valid_move(b, x, y, color) ==
    IF ~(in_bounds(b, x, y) /\ get(b, x, y) = EMPTY)
    THEN [ret |-> FALSE, board |-> b]
    ELSE LET b1 == place_stone(b, x, y, color).board
             cap == _capture_opponents(b1, x, y, color, TRUE)
             b2 == cap.board
         IN IF _group_has_liberty(b2, x, y, color) \/ cap.captured # <<>>
            THEN [ret |-> TRUE, board |-> set(b2, x, y, EMPTY)]
            ELSE [ret |-> FALSE, board |-> set(b2, x, y, EMPTY)]

goApplyKeepsPasses(b, passes, x, y, color) ==
    IF x = PassCoord /\ y = PassCoord
    THEN [err |-> "none", board |-> b, passes |-> passes + 1,
          ret |-> passes + 1 >= 2]
    ELSE LET placed == place_stone(b, x, y, color) IN
         IF placed.err # "none"
         THEN [err |-> placed.err, board |-> b, passes |-> passes, ret |-> FALSE]
         ELSE LET cap == _capture_opponents(placed.board, x, y, color, FALSE)
              IN [err |-> "none",
                  board |-> [cap.board EXCEPT
                      !.history = Append(@, <<x, y, color, cap.captured>>)],
                  passes |-> passes, ret |-> FALSE]

\* Two passes in a row end the game.
PassLimit == 2

\* GoRule.apply_move on board b with passes_in_row = passes: the error raised,
\* the board and passes_in_row afterwards, and the value returned (terminal).
go_apply_move(b, passes, x, y, color) ==
    IF x = PassCoord /\ y = PassCoord
    THEN [err |-> "none", board |-> b, passes |-> passes + 1,
          ret |-> passes + 1 >= PassLimit]
    ELSE LET placed == place_stone(b, x, y, color) IN
         IF placed.err # "none"
         THEN [err |-> placed.err, board |-> b, passes |-> 0, ret |-> FALSE]
         ELSE LET cap == _capture_opponents(placed.board, x, y, color, FALSE)
              IN [err |-> "none",
                  board |-> [cap.board EXCEPT
                      !.history = Append(@, <<x, y, color, cap.captured>>)],
                  passes |-> 0, ret |-> FALSE]

\* ------------------------------------------------- dispatch on rule.name
is_valid_move(name, b, x, y, color) ==
    IF name = "gomoku"
    THEN [ret |-> gomoku_is_valid_move(b, x, y, color), board |-> b]
    ELSE go_is_valid_move(b, x, y, color)

apply_move(name, b, passes, x, y, color) ==
    IF name = "gomoku"
    THEN LET r == gomoku_apply_move(b, x, y, color)
         IN [err |-> r.err, board |-> r.board, passes |-> passes, ret |-> r.ret]
    ELSE go_apply_move(b, passes, x, y, color)

\* ------------------------------------------------------------ the state
BoardRefs == {1, 2}

\* A heap slot that holds no Board object.
NoBoard == [size |-> 0, grid |-> [p \in {} |-> EMPTY], history |-> <<>>]

\* No rule engine (GameController.rule is None).
NoRule == [name |-> "none", board |-> 0, passes_in_row |-> 0]

\* The names of the Rule subclasses.
VariantNames == {"gomoku", "go"}

\* Rule.__init__ for the subclass called `name`.
NewRule(name, ref) == [name |-> name, board |-> ref, passes_in_row |-> 0]

NoFile == [exists |-> FALSE, rule |-> "", board |-> NoBoard, current |-> 0]

\* The record kept of a call: its name, the value returned and the error raised.
Call(op, ret, err) == [op |-> op, ret |-> ret, err |-> err]

NoCall == Call("none", FALSE, "none")

\* The board the rule engine works on (Rule.board).
RuleBoard == heap[rule.board]

\* Where callers place stones: cells next to an origin, which is the corner for
\* Go (captures need the fewest stones at the edge) and inside the board for
\* Gomoku (every axis through it has room for a run of five).
GomokuOrigin == 3
PlayOrigin(name) == IF name = "gomoku" THEN GomokuOrigin ELSE 0
PlayOrder ==
    << <<0, 0>>, <<1, 0>>, <<0, 1>>, <<1, 1>>, <<2, 0>>, <<0, 2>>,
       <<2, 1>>, <<1, 2>>, <<2, 2>> >>
CellsFrom(name, count) ==
    {<<PlayOrigin(name) + PlayOrder[k][1], PlayOrigin(name) + PlayOrder[k][2]>> :
        k \in {k \in 1 .. Len(PlayOrder) : k <= count}}
PlayCells(name) == CellsFrom(name, PlayCount)

\* Positions outside every board: what `move x y` can name (the command parses
\* digits only), and what a direct caller can.
CtlOutCells == {<<MaxSize, 0>>, <<0, MaxSize>>}
OutCells == CtlOutCells \cup {<<-1, 0>>, <<0, -1>>, <<-1, -1>>}

\* ------------------------------------------- positions a game starts from
\* A position is reached by applying its moves, in order, to a new board
\* through is_valid_move and apply_move (a pass is applied as it is).
IsPass(m) == m[1] = PassCoord /\ m[2] = PassCoord

\* One move of a replay on the state st = [ok, board, passes].
ReplayStep(name, st, m) ==
    LET v == IF IsPass(m) THEN [ret |-> name = "go", board |-> st.board]
             ELSE is_valid_move(name, st.board, m[1], m[2], m[3])
        a == apply_move(name, v.board, st.passes, m[1], m[2], m[3])
    IN IF st.ok /\ v.ret /\ a.err = "none"
       THEN [ok |-> TRUE, board |-> a.board, passes |-> a.passes]
       ELSE [st EXCEPT !.ok = FALSE]

RECURSIVE ReplayFrom(_, _, _)
ReplayFrom(name, st, moves) ==
    IF moves = <<>> THEN st
    ELSE CHOOSE r \in {ReplayFrom(name, next, Tail(moves)) :
                          next \in {ReplayStep(name, st, Head(moves))}} : TRUE

Replay(name, b, passes, moves) ==
    ReplayFrom(name, [ok |-> TRUE, board |-> b, passes |-> passes], moves)

\* Go: a white group bent around the corner point, one liberty left at (0, 0).
GoBentGroup ==
    << <<2, 0, BLACK>>, <<1, 0, WHITE>>, <<2, 1, BLACK>>, <<1, 1, WHITE>>,
       <<1, 2, BLACK>>, <<0, 1, WHITE>>, <<0, 2, BLACK>> >>

\* Go: black has just passed.
GoPassed == << <<PassCoord, PassCoord, BLACK>> >>

\* Go: a stone each, then a pass.
GoStonePass == << <<1, 0, BLACK>>, <<0, 1, WHITE>>, <<PassCoord, PassCoord, BLACK>> >>

\* Go: a white stone in the corner with one liberty left.
GoAtari == << <<1, 0, BLACK>>, <<0, 0, WHITE>> >>

\* Go: black at (0, 0) would have no liberty of its own but takes two stones.
GoSnap ==
    << <<1, 0, BLACK>>, <<2, 0, WHITE>>, <<0, 2, BLACK>>, <<1, 1, WHITE>>,
       <<1, 2, BLACK>>, <<0, 1, WHITE>>, <<2, 1, BLACK>>, <<3, 0, WHITE>> >>

\* Gomoku: every cell but those of `holes` filled with runs of two, so that no
\* axis holds three in a row: colour by (x + 2y) mod 4.
FillColor(p) == IF (p[1] + 2 * p[2]) % 4 < 2 THEN BLACK ELSE WHITE

RECURSIVE FillMoves(_, _, _)
FillMoves(n, k, holes) ==
    IF k = n * n THEN <<>>
    ELSE LET p == <<k % n, k \div n>> IN
         IF p \in holes THEN FillMoves(n, k + 1, holes)
         ELSE << <<p[1], p[2], FillColor(p)>> >> \o FillMoves(n, k + 1, holes)

\* Gomoku: black stones on the axis d through Centre, `ahead` of them on the
\* far side and `behind` of them on the near side, the corner region left free.
Centre == <<GomokuOrigin, GomokuOrigin>>

LineMoves(d, ahead, behind) ==
    LET b0 == NewBoard(MinSize)
        cells == [k \in 1 .. ahead + behind |->
                     IF k <= ahead
                     THEN <<Centre[1] + k * d[1], Centre[2] + k * d[2], BLACK>>
                     ELSE <<Centre[1] - (k - ahead) * d[1],
                            Centre[2] - (k - ahead) * d[2], BLACK>>]
        kept(m) == /\ in_bounds(b0, m[1], m[2])
                   /\ <<m[1], m[2]>> \notin PlayCells("gomoku")
    IN SelectSeq(cells, kept)

Setup(name, moves) == [name |-> name, size |-> MinSize, moves |-> moves]

RuleSetups ==
    {Setup("go", <<>>), Setup("go", GoPassed), Setup("go", GoStonePass),
     Setup("go", GoAtari), Setup("go", GoBentGroup), Setup("go", GoSnap),
     Setup("gomoku", <<>>),
     Setup("gomoku", FillMoves(MinSize, 0, {Centre})),
     Setup("gomoku", FillMoves(MinSize, 0, {Centre, <<Centre[1] + 1, Centre[2]>>}))}
    \cup {Setup("gomoku", LineMoves(directions[k], a, b)) :
            k \in 1 .. Len(directions), a \in {1, 2, 4}, b \in {0, 2}}

\* ------------------------------------------------------------- Init
\* A rule engine on its own board, as a direct caller holds it, in one of the
\* starting positions.
InitAt(s) ==
        LET r == Replay(s.name, NewBoard(s.size), 0, s.moves) IN
        /\ r.ok
        /\ heap = [ref \in BoardRefs |-> IF ref = 1 THEN r.board ELSE NoBoard]
        /\ rule = [NewRule(s.name, 1) EXCEPT !.passes_in_row = r.passes]
        /\ ctlBoard = 0
        /\ players = <<>>
        /\ current_idx = 0
        /\ disk = NoFile
        /\ pc = "running"
        /\ last = NoCall
        /\ applied = Len(s.moves)
        /\ undone = 0
        /\ steps = 0
        /\ undos = 0
        /\ lastApplied = IF s.moves = <<>> THEN "none"
                         ELSE IF IsPass(s.moves[Len(s.moves)]) THEN "pass"
                         ELSE "stone"

InitRule == \E s \in RuleSetups : InitAt(s)

\* GameController.__init__, with `file` on the disk.
InitWith(file) ==
    /\ heap = [ref \in BoardRefs |-> NoBoard]
    /\ rule = NoRule
    /\ ctlBoard = 0
    /\ players = <<>>
    /\ current_idx = 0
    /\ disk = file
    /\ pc = "running"
    /\ last = NoCall
    /\ applied = 0
    /\ undone = 0
    /\ steps = 0
    /\ undos = 0
    /\ lastApplied = "none"

Init == InitWith(NoFile)

\* ------------------------------------------- calls on the rule engine
ctlVars == <<ctlBoard, players, current_idx, disk, pc>>

\* rule.is_valid_move(x, y, color).
RuleIsValidMove(x, y, color) ==
    /\ rule.name # "none"
    /\ LET v == is_valid_move(rule.name, RuleBoard, x, y, color) IN
       /\ heap' = [heap EXCEPT ![rule.board] = v.board]
       /\ last' = Call("is_valid_move", v.ret, "none")
    /\ UNCHANGED <<rule, applied, undone, steps, undos, lastApplied>>
    /\ UNCHANGED ctlVars

\* rule.apply_move(x, y, color) for a placement the caller validated first.
RuleApplyMove(x, y, color) ==
    /\ rule.name # "none"
    /\ steps < MaxApplied
    /\ \E v \in {is_valid_move(rule.name, RuleBoard, x, y, color)} :
         /\ v.ret
         /\ \E a \in {apply_move(rule.name, v.board, rule.passes_in_row,
                                 x, y, color)} :
              /\ a.err = "none"
              /\ heap' = [heap EXCEPT ![rule.board] = a.board]
              /\ rule' = [rule EXCEPT !.passes_in_row = a.passes]
              /\ last' = Call("apply_move", a.ret, "none")
    /\ applied' = applied + 1
    /\ lastApplied' = "stone"
    /\ steps' = steps + 1
    /\ UNCHANGED <<undone, undos>>
    /\ UNCHANGED ctlVars

\* rule.apply_move(-1, -1, color) on the Go engine: a pass.
RulePass ==
    /\ rule.name = "go"
    /\ steps < MaxApplied
    /\ \E color \in Colors :
         LET a == apply_move(rule.name, RuleBoard, rule.passes_in_row,
                             PassCoord, PassCoord, color)
         IN /\ a.err = "none"
            /\ heap' = [heap EXCEPT ![rule.board] = a.board]
            /\ rule' = [rule EXCEPT !.passes_in_row = a.passes]
            /\ last' = Call("pass", a.ret, "none")
    /\ applied' = applied + 1
    /\ lastApplied' = "pass"
    /\ steps' = steps + 1
    /\ UNCHANGED <<undone, undos>>
    /\ UNCHANGED ctlVars

ruleUndoResetsPasses ==
    /\ rule.name # "none"
    /\ LET u == undo(RuleBoard) IN
       /\ u.err = "none" => undos < MaxUndone
       /\ heap' = [heap EXCEPT ![rule.board] = u.board]
       /\ last' = Call("undo", FALSE, u.err)
       /\ undone' = IF u.err = "none" THEN undone + 1 ELSE undone
       /\ undos' = IF u.err = "none" THEN undos + 1 ELSE undos
       /\ rule' = IF u.err = "none" THEN [rule EXCEPT !.passes_in_row = 0]
                  ELSE rule
    /\ UNCHANGED <<applied, steps, lastApplied>>
    /\ UNCHANGED ctlVars

\* rule.undo().
RuleUndo ==
    /\ rule.name # "none"
    /\ LET u == undo(RuleBoard) IN
       /\ u.err = "none" => undos < MaxUndone
       /\ heap' = [heap EXCEPT ![rule.board] = u.board]
       /\ last' = Call("undo", FALSE, u.err)
       /\ undone' = IF u.err = "none" THEN undone + 1 ELSE undone
       /\ undos' = IF u.err = "none" THEN undos + 1 ELSE undos
    /\ UNCHANGED <<rule, applied, steps, lastApplied>>
    /\ UNCHANGED ctlVars

NextRule ==
    \/ \E p \in PlayCells(rule.name) \cup OutCells, color \in Colors :
          RuleIsValidMove(p[1], p[2], color)
    \/ \E p \in PlayCells(rule.name), color \in Colors :
          RuleApplyMove(p[1], p[2], color)
    \/ RulePass
    \/ RuleUndo

SpecRule == InitRule /\ [][NextRule]_vars

\* ---------------------------------------------- calls on the Board itself
\* Board(size) and a rule engine on it, as a direct caller constructs them.
BoardCreate(name, size) ==
    /\ IF ~SizeOk(size)
       THEN /\ last' = Call("create", FALSE, "InvalidSize")
            /\ UNCHANGED <<heap, rule, applied, undone, steps, undos, lastApplied>>
       ELSE /\ steps < MaxApplied
            /\ steps' = steps + 1
            /\ UNCHANGED undos
            /\ heap' = [ref \in BoardRefs |->
                           IF ref = 1 THEN NewBoard(size) ELSE NoBoard]
            /\ rule' = NewRule(name, 1)
            /\ applied' = 0 /\ undone' = 0 /\ lastApplied' = "none"
            /\ last' = Call("create", FALSE, "none")
    /\ UNCHANGED ctlVars

\* board.place_stone(x, y, color), called on the board directly.
BoardPlaceStone(x, y, color) ==
    /\ rule.name # "none"
    /\ \E r \in {place_stone(RuleBoard, x, y, color)} :
         /\ r.err = "none" => steps < MaxApplied
         /\ heap' = [heap EXCEPT ![rule.board] = r.board]
         /\ last' = Call("place_stone", FALSE, r.err)
         /\ steps' = IF r.err = "none" THEN steps + 1 ELSE steps
    /\ UNCHANGED <<rule, applied, undone, undos, lastApplied>>
    /\ UNCHANGED ctlVars

\* board.remove_stones(stones), called on the board directly.
BoardRemoveStones(stones) ==
    /\ rule.name # "none"
    /\ heap' = [heap EXCEPT ![rule.board] = remove_stones(RuleBoard, stones)]
    /\ last' = Call("remove_stones", FALSE, "none")
    /\ UNCHANGED <<rule, applied, undone, steps, undos, lastApplied>>
    /\ UNCHANGED ctlVars

\* The sizes a board is asked for, the points stones are put on and the lists
\* of stones removed.
CreateSizes == {0, MinSize - 1, MinSize, MaxSize, MaxSize + 1}
BoardCells == CellsFrom(rule.name, CtlPlayCount)
BoardInputs == BoardCells \cup OutCells
RemoveInputs ==
    {<<>>} \cup {<<p>> : p \in BoardCells}
           \cup {<<p, q>> : p \in CellsFrom(rule.name, 1),
                            q \in BoardCells \ CellsFrom(rule.name, 1)}

BoardSetups ==
    {Setup("go", <<>>), Setup("go", GoBentGroup),
     Setup("gomoku", LineMoves(directions[1], 2, 2))}

InitBoard == \E s \in BoardSetups : InitAt(s)

NextBoard ==
    \/ \E size \in CreateSizes : BoardCreate(rule.name, size)
    \/ \E p \in BoardInputs, color \in Colors : BoardPlaceStone(p[1], p[2], color)
    \/ \E stones \in RemoveInputs : BoardRemoveStones(stones)
    \/ \E p \in CellsFrom(rule.name, 1), color \in Colors :
          RuleApplyMove(p[1], p[2], color)
    \/ RuleUndo

SpecBoard == InitBoard /\ [][NextBoard]_vars

\* ------------------------------------------------ persistence (Board)
to_dict(b) == [size |-> b.size, grid |-> b.grid, history |-> b.history]

\* Board.from_dict: Board(size), then the grid and the history of the data.
from_dict(data) ==
    IF ~SizeOk(data.size) THEN [err |-> "InvalidSize", board |-> NoBoard]
    ELSE [err |-> "none",
          board |-> [NewBoard(data.size) EXCEPT !.grid = data.grid,
                                                !.history = data.history]]

\* ------------------------------------------- GameController commands
\* What the user may type at start_game's prompts.
VariantInputs == VariantNames \cup {"chess"}
SizeInputs == {MinSize - 1, MinSize, MaxSize + 1}

ghostVars == <<applied, undone, steps, undos, lastApplied>>

\* self.current_player.color
CurrentColor == players[current_idx + 1]

\* switch_player
Switched == 1 - current_idx

\* The reference of a Board object allocated while the rule engine's lives on.
FreshRef == CHOOSE r \in BoardRefs : r # rule.board

\* start_game, with the two values it reads from the user.
start_game(game_type, size) ==
    /\ pc = "running"
    /\ IF ~SizeOk(size)
       THEN /\ last' = Call("start", FALSE, "InvalidSize")
            /\ UNCHANGED <<heap, ctlBoard, rule, players, current_idx>>
            /\ UNCHANGED ghostVars
       ELSE IF game_type \in VariantNames
       THEN /\ heap' = [ref \in BoardRefs |->
                           IF ref = 1 THEN NewBoard(size) ELSE NoBoard]
            /\ ctlBoard' = 1
            /\ rule' = NewRule(game_type, 1)
            /\ players' = <<BLACK, WHITE>>
            /\ current_idx' = 0
            /\ applied' = 0 /\ undone' = 0 /\ lastApplied' = "none"
            /\ UNCHANGED <<steps, undos>>
            /\ last' = Call("start", FALSE, "none")
       ELSE \* self.board is assigned before the variant is looked at
            /\ heap' = [heap EXCEPT ![FreshRef] = NewBoard(size)]
            /\ ctlBoard' = FreshRef
            /\ last' = Call("start", FALSE, "UnknownVariant")
            /\ UNCHANGED <<rule, players, current_idx>>
            /\ UNCHANGED ghostVars
    /\ UNCHANGED <<disk, pc>>

\* command_move for the text "move x y".
command_move(x, y) ==
    /\ pc = "running"
    /\ IF ctlBoard = 0
       THEN /\ last' = Call("move", FALSE, "NotStarted")
            /\ UNCHANGED <<heap, rule, current_idx, pc>>
            /\ UNCHANGED ghostVars
       ELSE IF players = <<>>
       THEN \* current_player raises; run() prints the error
            /\ last' = Call("move", FALSE, "Error")
            /\ UNCHANGED <<heap, rule, current_idx, pc>>
            /\ UNCHANGED ghostVars
       ELSE LET color == CurrentColor
                v == is_valid_move(rule.name, RuleBoard, x, y, color)
                a == apply_move(rule.name, v.board, rule.passes_in_row, x, y, color)
            IN IF ~v.ret
               THEN /\ heap' = [heap EXCEPT ![rule.board] = v.board]
                    /\ last' = Call("move", FALSE, "Rejected")
                    /\ UNCHANGED <<rule, current_idx, pc>>
                    /\ UNCHANGED ghostVars
               ELSE /\ steps < MaxApplied
                    /\ heap' = [heap EXCEPT ![rule.board] = a.board]
                    /\ rule' = [rule EXCEPT !.passes_in_row = a.passes]
                    /\ last' = Call("move", a.ret, a.err)
                    /\ IF a.err # "none"
                       THEN UNCHANGED <<current_idx, pc>> /\ UNCHANGED ghostVars
                       ELSE /\ applied' = applied + 1
                            /\ steps' = steps + 1
                            /\ lastApplied' = "stone"
                            /\ UNCHANGED <<undone, undos>>
                            /\ IF a.ret
                               THEN pc' = "exited" /\ UNCHANGED current_idx
                               ELSE current_idx' = Switched /\ UNCHANGED pc
    /\ UNCHANGED <<ctlBoard, players, disk>>

commandPassNoExit ==
    /\ pc = "running"
    /\ IF ctlBoard = 0 \/ rule.name # "go"
       THEN \* the message, or the error of reading None.name
            /\ last' = Call("pass", FALSE,
                             IF ctlBoard # 0 /\ rule.name = "none"
                             THEN "Error" ELSE "NotGo")
            /\ UNCHANGED <<heap, rule, current_idx, pc>>
            /\ UNCHANGED ghostVars
       ELSE LET a == apply_move(rule.name, RuleBoard, rule.passes_in_row,
                                PassCoord, PassCoord, CurrentColor)
            IN /\ steps < MaxApplied
               /\ heap' = [heap EXCEPT ![rule.board] = a.board]
               /\ rule' = [rule EXCEPT !.passes_in_row = a.passes]
               /\ current_idx' = Switched
               /\ pc' = pc
               /\ last' = Call("pass", a.ret, "none")
               /\ applied' = applied + 1
               /\ steps' = steps + 1
               /\ lastApplied' = "pass"
               /\ UNCHANGED <<undone, undos>>
    /\ UNCHANGED <<ctlBoard, players, disk>>

\* command_pass.
command_pass ==
    /\ pc = "running"
    /\ IF ctlBoard = 0 \/ rule.name # "go"
       THEN \* the message, or the error of reading None.name
            /\ last' = Call("pass", FALSE,
                             IF ctlBoard # 0 /\ rule.name = "none"
                             THEN "Error" ELSE "NotGo")
            /\ UNCHANGED <<heap, rule, current_idx, pc>>
            /\ UNCHANGED ghostVars
       ELSE LET a == apply_move(rule.name, RuleBoard, rule.passes_in_row,
                                PassCoord, PassCoord, CurrentColor)
            IN /\ steps < MaxApplied
               /\ heap' = [heap EXCEPT ![rule.board] = a.board]
               /\ rule' = [rule EXCEPT !.passes_in_row = a.passes]
               /\ current_idx' = Switched
               /\ pc' = IF a.ret THEN "exited" ELSE pc
               /\ last' = Call("pass", a.ret, "none")
               /\ applied' = applied + 1
               /\ steps' = steps + 1
               /\ lastApplied' = "pass"
               /\ UNCHANGED <<undone, undos>>
    /\ UNCHANGED <<ctlBoard, players, disk>>

commandUndoSwitchesOnError ==
    /\ pc = "running"
    /\ IF ctlBoard = 0
       THEN /\ last' = Call("undo", FALSE, "NotStarted")
            /\ UNCHANGED <<heap, current_idx>>
            /\ UNCHANGED ghostVars
       ELSE IF rule.name = "none"
       THEN /\ last' = Call("undo", FALSE, "Error")
            /\ UNCHANGED <<heap, current_idx>>
            /\ UNCHANGED ghostVars
       ELSE LET u == undo(RuleBoard) IN
            /\ heap' = [heap EXCEPT ![rule.board] = u.board]
            /\ last' = Call("undo", FALSE, u.err)
            /\ current_idx' = Switched
            /\ IF u.err = "none"
               THEN /\ undos < MaxUndone
                    /\ undone' = undone + 1
                    /\ undos' = undos + 1
                    /\ UNCHANGED <<applied, steps, lastApplied>>
               ELSE UNCHANGED ghostVars
    /\ UNCHANGED <<ctlBoard, rule, players, disk, pc>>

\* command_undo.
command_undo ==
    /\ pc = "running"
    /\ IF ctlBoard = 0
       THEN /\ last' = Call("undo", FALSE, "NotStarted")
            /\ UNCHANGED <<heap, current_idx>>
            /\ UNCHANGED ghostVars
       ELSE IF rule.name = "none"
       THEN /\ last' = Call("undo", FALSE, "Error")
            /\ UNCHANGED <<heap, current_idx>>
            /\ UNCHANGED ghostVars
       ELSE LET u == undo(RuleBoard) IN
            /\ heap' = [heap EXCEPT ![rule.board] = u.board]
            /\ last' = Call("undo", FALSE, u.err)
            /\ IF u.err = "none"
               THEN /\ undos < MaxUndone
                    /\ current_idx' = Switched
                    /\ undone' = undone + 1
                    /\ undos' = undos + 1
                    /\ UNCHANGED <<applied, steps, lastApplied>>
               ELSE UNCHANGED current_idx /\ UNCHANGED ghostVars
    /\ UNCHANGED <<ctlBoard, rule, players, disk, pc>>

\* command_save for the text "save <filename>".
command_save ==
    /\ pc = "running"
    /\ IF ctlBoard = 0
       THEN /\ last' = Call("save", FALSE, "NotStarted")
            /\ UNCHANGED <<disk, steps>>
       ELSE IF rule.name = "none"
       THEN /\ last' = Call("save", FALSE, "Error")
            /\ UNCHANGED <<disk, steps>>
       ELSE /\ steps < MaxApplied
            /\ steps' = steps + 1
            /\ disk' = [exists |-> TRUE, rule |-> rule.name,
                        board |-> to_dict(heap[ctlBoard]),
                        current |-> current_idx]
            /\ last' = Call("save", FALSE, "none")
    /\ UNCHANGED <<heap, ctlBoard, rule, players, current_idx, pc>>
    /\ UNCHANGED <<applied, undone, undos, lastApplied>>

\* command_load for the text "load <filename>".
command_load ==
    /\ pc = "running"
    /\ IF ~disk.exists
       THEN /\ last' = Call("load", FALSE, "NoFile")
            /\ UNCHANGED <<heap, ctlBoard, rule, players, current_idx>>
            /\ UNCHANGED ghostVars
       ELSE LET d == from_dict(disk.board) IN
            IF d.err # "none"
            THEN /\ last' = Call("load", FALSE, d.err)
                 /\ UNCHANGED <<heap, ctlBoard, rule, players, current_idx>>
                 /\ UNCHANGED ghostVars
            ELSE /\ heap' = [ref \in BoardRefs |->
                                IF ref = 1 THEN d.board ELSE NoBoard]
                 /\ ctlBoard' = 1
                 /\ rule' = NewRule(IF disk.rule = "gomoku" THEN "gomoku" ELSE "go", 1)
                 /\ current_idx' = disk.current
                 /\ players' = <<BLACK, WHITE>>
                 /\ applied' = Len(d.board.history)
                 /\ undone' = 0
                 /\ UNCHANGED <<steps, undos>>
                 /\ lastApplied' = "none"
                 /\ last' = Call("load", FALSE, "none")
    /\ UNCHANGED <<disk, pc>>

\* The save file comes from elsewhere: it names another variant.
ForeignFile(name) ==
    /\ pc = "running"
    /\ disk.exists
    /\ disk.rule # name
    /\ disk' = [disk EXCEPT !.rule = name]
    /\ last' = Call("file", FALSE, "none")
    /\ UNCHANGED <<heap, ctlBoard, rule, players, current_idx, pc>>
    /\ UNCHANGED ghostVars

\* The cells "move x y" is tried on.
MoveInputs ==
    CellsFrom(IF rule.name = "none" THEN "go" ELSE rule.name, CtlPlayCount)
        \cup CtlOutCells

Next ==
    \/ \E game_type \in VariantInputs, size \in SizeInputs : start_game(game_type, size)
    \/ \E p \in MoveInputs : command_move(p[1], p[2])
    \/ command_pass
    \/ command_undo
    \/ command_save
    \/ command_load
    \/ \E name \in VariantInputs \ VariantNames : ForeignFile(name)

Spec == Init /\ [][Next]_vars

\* ------------------------------------- games saved by an earlier session
\* Moves of the two seats in turn, black first.
Alternate(blacks, whites) ==
    [k \in 1 .. Len(blacks) + Len(whites) |->
        IF k % 2 = 1 THEN blacks[(k + 1) \div 2] ELSE whites[k \div 2]]

\* Gomoku, black to move: black holds two cells on either side of Centre on
\* its row, white four cells of the last row.
GomokuFourMoves ==
    Alternate([k \in 1 .. 4 |->
                  <<Centre[1] + <<-2, -1, 1, 2>>[k], Centre[2], BLACK>>],
              [k \in 1 .. 4 |->
                  <<<<0, 1, 2, 4>>[k], MinSize - 1, WHITE>>])

\* Gomoku, white to move: the board of FillMoves with one cell left, which is
\* white's in the pattern.
GomokuLastCell == <<Centre[1] + 1, Centre[2]>>

GomokuLastCellMoves ==
    LET fill == FillMoves(MinSize, 0, {GomokuLastCell})
        turned(m) == IF FillColor(GomokuLastCell) = WHITE THEN m
                     ELSE <<m[1], m[2], opposite(m[3])>>
        all == [k \in 1 .. Len(fill) |-> turned(fill[k])]
        black(m) == m[3] = BLACK
        white(m) == m[3] = WHITE
    IN Alternate(SelectSeq(all, black), SelectSeq(all, white))

\* The file command_save writes after `moves` in a game of `name`.
SavedGame(name, moves) ==
    [exists |-> TRUE, rule |-> name,
     board |-> to_dict(Replay(name, NewBoard(MinSize), 0, moves).board),
     current |-> Len(moves) % 2]

SavedGames ==
    {SavedGame("gomoku", GomokuFourMoves),
     SavedGame("gomoku", GomokuLastCellMoves)}

InitSaved == \E file \in SavedGames : InitWith(file)

SpecSaved == InitSaved /\ [][Next]_vars

\* ======================================================= properties
\* The vocabulary of the properties, defined on grids without the engine's
\* searches and loops.
Other(c) == CHOOSE o \in Colors : o # c

\* The cells of the board next to p, and next to some cell of S.
Around(b, p) ==
    {<<p[1] + 1, p[2]>>, <<p[1] - 1, p[2]>>, <<p[1], p[2] + 1>>, <<p[1], p[2] - 1>>}
        \cap Pos(b.size)

Border(b, S) == UNION {Around(b, p) : p \in S} \ S

\* The maximal 4-connected set of cells of colour c that contains S.
RECURSIVE Grow(_, _, _)
Grow(b, c, S) ==
    LET more == {q \in Border(b, S) : b.grid[q] = c}
    IN IF more = {} THEN S ELSE Grow(b, c, S \cup more)

GroupOf(b, p) == Grow(b, b.grid[p], {p})

LibertiesOf(b, G) == {q \in Border(b, G) : b.grid[q] = EMPTY}

\* The board with a stone of colour c put on the empty in-bounds point p.
WithStone(b, p, c) == [b EXCEPT !.grid[p] = c]

\* The opponent stones that have no liberty once c stands on p.
Dead(b, p, c) ==
    LET b1 == WithStone(b, p, c) IN
    UNION {GroupOf(b1, q) : q \in {q \in Around(b, p) :
              /\ b1.grid[q] = Other(c)
              /\ LibertiesOf(b1, GroupOf(b1, q)) = {}}}

\* Legality of a Go placement as the rules state it.
Legal(b, p, c) ==
    /\ p \in Pos(b.size)
    /\ b.grid[p] = EMPTY
    /\ \/ Dead(b, p, c) # {}
       \/ LibertiesOf(WithStone(b, p, c), GroupOf(WithStone(b, p, c), p)) # {}

Suicide(b, p, c) == p \in Pos(b.size) /\ b.grid[p] = EMPTY /\ ~Legal(b, p, c)

Range(seq) == {seq[k] : k \in 1 .. Len(seq)}

\* The latest entry of the rule engine's log.
Top(b) == b.history[Len(b.history)]

\* The four axes of a line.
Axes == {<<1, 0>>, <<0, 1>>, <<1, 1>>, <<1, -1>>}

\* Some n consecutive cells on the axis d, p among them, all hold colour c.
HasRun(b, p, c, d, n) ==
    \E lo \in 0 .. n - 1 :
        \A k \in (0 - lo) .. (n - 1 - lo) :
            /\ <<p[1] + k * d[1], p[2] + k * d[2]>> \in Pos(b.size)
            /\ b.grid[<<p[1] + k * d[1], p[2] + k * d[2]>>] = c

Wins(b, p, c) == \E d \in Axes : HasRun(b, p, c, d, 5)

Full(b) == \A p \in Pos(b.size) : b.grid[p] \in Colors

\* What direct callers pass to is_valid_move.
ValidateInputs == PlayCells(rule.name) \cup OutCells

\* A step that is a validated stone placement through apply_move.
Placed == last'.op = "apply_move"

\* C1: applying a validated placement and then undoing it gives back the grid
\* and the log of before the placement, in both variants.
C1_UndoRoundTrip ==
    [][Placed =>
         LET u == undo(heap'[rule'.board]) IN
         /\ u.err = "none"
         /\ u.board.grid = RuleBoard.grid
         /\ u.board.history = RuleBoard.history]_vars

\* A placement that captured has just been applied.
C1_Witness ==
    /\ last.op = "apply_move"
    /\ rule.name = "go"
    /\ Len(Top(RuleBoard)[4]) >= 2

\* C2: the length of the log is the number of apply_move calls that returned
\* (placements and passes) minus the number of undo calls that returned.
C2_LogLength ==
    rule.name # "none" => Len(RuleBoard.history) = applied - undone

\* C3: GoRule.is_valid_move returns true exactly for an empty in-bounds point
\* where the stone captures or its own group keeps a liberty.
C3_GoLegality ==
    rule.name = "go" =>
        \A p \in ValidateInputs, c \in Colors :
            go_is_valid_move(RuleBoard, p[1], p[2], c).ret <=> Legal(RuleBoard, p, c)

\* is_valid_move has refused where a suicide is on offer.
C3_Witness ==
    /\ last.op = "is_valid_move"
    /\ rule.name = "go"
    /\ ~last.ret
    /\ \E p \in PlayCells("go"), c \in Colors : Suicide(RuleBoard, p, c)

\* C4: a call of is_valid_move leaves the grid, the log and the pass counter
\* as they were, whatever it returns, in both variants.
C4_ValidationPure ==
    [][last'.op = "is_valid_move" => heap' = heap /\ rule' = rule]_vars

\* is_valid_move has accepted where a placement would capture.
C4_Witness ==
    /\ last.op = "is_valid_move"
    /\ rule.name = "go"
    /\ last.ret
    /\ \E p \in PlayCells("go"), c \in Colors :
          RuleBoard.grid[p] = EMPTY /\ Dead(RuleBoard, p, c) # {}

\* C5: a validated Go placement of c at p removes exactly the opponent groups
\* next to p that have no liberty with the stone on, leaves c on p and every
\* other cell alone, and appends (p, c, captured) with captured those stones.
C5_CaptureCorrect ==
    [][Placed /\ rule.name = "go" =>
         LET pre == RuleBoard
             post == heap'[rule'.board]
             rec == Top(post)
             p == <<rec[1], rec[2]>>
             dead == Dead(pre, p, rec[3])
         IN /\ Len(post.history) = Len(pre.history) + 1
            /\ SubSeq(post.history, 1, Len(pre.history)) = pre.history
            /\ pre.grid[p] = EMPTY
            /\ {q \in Pos(pre.size) : pre.grid[q] # EMPTY /\ post.grid[q] = EMPTY}
                 = dead
            /\ \A q \in Pos(pre.size) :
                 post.grid[q] = IF q = p THEN rec[3]
                                ELSE IF q \in dead THEN EMPTY
                                ELSE pre.grid[q]
            /\ Range(rec[4]) = dead]_vars

\* A placement has taken a group of two or more stones.
C5_Witness ==
    /\ last.op = "apply_move"
    /\ rule.name = "go"
    /\ Cardinality(Range(Top(RuleBoard)[4])) >= 2
    /\ \A q \in Range(Top(RuleBoard)[4]) : RuleBoard.grid[q] = EMPTY

\* C6: a pass returns terminal exactly when the apply_move before it on this
\* engine was a pass too, and a placement puts the pass counter back to 0.
C6_PassTermination ==
    [][/\ last'.op = "pass" => (last'.ret <=> lastApplied = "pass")
       /\ Placed /\ rule.name = "go" => rule'.passes_in_row = 0]_vars

\* Pass, placement, pass: the second pass did not end the game.
C6_Witness ==
    /\ last.op = "pass"
    /\ ~last.ret
    /\ applied = 3
    /\ undone = 0
    /\ Len(RuleBoard.history) = 1

\* C7: on a board not full after it, a Gomoku placement returns terminal
\* exactly when the run of its colour through the placed point is five or
\* more on some axis.
C7_LineWin ==
    [][Placed /\ rule.name = "gomoku" /\ ~Full(heap'[rule'.board]) =>
         LET post == heap'[rule'.board]
             rec == Top(post)
         IN last'.ret <=> Wins(post, <<rec[1], rec[2]>>, rec[3])]_vars

\* A placement has won on a board with empty cells left.
C7_Witness ==
    /\ last.op = "apply_move"
    /\ rule.name = "gomoku"
    /\ last.ret
    /\ ~Full(RuleBoard)

\* C8: a Gomoku placement that completes no run of five returns terminal
\* exactly when it filled the last empty cell.
C8_FullBoardDraw ==
    [][/\ Placed
       /\ rule.name = "gomoku"
       /\ LET rec == Top(heap'[rule'.board])
          IN ~Wins(heap'[rule'.board], <<rec[1], rec[2]>>, rec[3])
       => (last'.ret <=> Full(heap'[rule'.board]))]_vars

\* The last empty cell has been filled without a run of five.
C8_Witness ==
    /\ last.op = "apply_move"
    /\ rule.name = "gomoku"
    /\ last.ret
    /\ Full(RuleBoard)
    /\ ~Wins(RuleBoard, <<Top(RuleBoard)[1], Top(RuleBoard)[2]>>, Top(RuleBoard)[3])

\* C9: undo on an empty log fails with EmptyHistory and changes neither the
\* grid, the log, the pass counter nor the player to move.
C9_UndoEmptyLog ==
    [][/\ last'.op = "undo"
       /\ rule.name # "none"
       /\ RuleBoard.history = <<>>
       => /\ last'.err = "EmptyHistory"
          /\ heap' = heap
          /\ rule' = rule
          /\ current_idx' = current_idx
          /\ ctlBoard' = ctlBoard
          /\ players' = players]_vars

\* undo has failed on a log that moves were applied to before.
C9_Witness ==
    /\ last.op = "undo"
    /\ last.err = "EmptyHistory"
    /\ ctlBoard # 0
    /\ applied > 0

\* C10: start_game with an unknown variant changes nothing of the controller,
\* the rule engine always works on the controller's board, and loading a file
\* that names an unknown variant fails.
C10_UnknownVariantClean ==
    [][/\ last'.op = "start" /\ last'.err = "UnknownVariant" =>
            /\ ctlBoard' = ctlBoard
            /\ heap' = heap
            /\ rule' = rule
            /\ players' = players
            /\ current_idx' = current_idx
       /\ rule'.name # "none" => rule'.board = ctlBoard'
       /\ last'.op = "load" /\ disk.exists /\ disk.rule \notin VariantNames =>
            last'.err = "UnknownVariant"]_vars

\* C11: Board.place_stone(x, y, color) raises OutOfBounds exactly for a point
\* outside the grid and Occupied exactly for a non-empty cell, both without
\* changing the grid or the log; otherwise it sets that one cell to color and
\* leaves every other cell and the log alone.
C11_PlaceStoneContract ==
    [][last'.op = "place_stone" =>
       \A p \in BoardInputs, c \in Colors :
          BoardPlaceStone(p[1], p[2], c) =>
              LET pre == RuleBoard
                  post == heap'[rule'.board]
              IN /\ post.history = pre.history
                 /\ post.size = pre.size
                 /\ rule' = rule
                 /\ IF p \notin Pos(pre.size)
                    THEN last'.err = "OutOfBounds" /\ post.grid = pre.grid
                    ELSE IF pre.grid[p] # EMPTY
                    THEN last'.err = "Occupied" /\ post.grid = pre.grid
                    ELSE /\ last'.err = "none"
                         /\ post.grid = [q \in Pos(pre.size) |->
                                            IF q = p THEN c ELSE pre.grid[q]]]_vars

\* place_stone has refused an occupied cell of a board that has a log.
C11_Witness ==
    /\ last.op = "place_stone"
    /\ last.err = "Occupied"
    /\ RuleBoard.history # <<>>

\* What the next command gives on the rule engine r with board b for the
\* player at seat idx: the verdict of is_valid_move, the terminal signal, the
\* board and the pass counter after a stone at p, or after a pass.
Outcome(r, b, idx, p) ==
    LET color == <<BLACK, WHITE>>[idx + 1]
        v == IF IsPass(p) THEN [ret |-> r.name = "go", board |-> b]
             ELSE is_valid_move(r.name, b, p[1], p[2], color)
    IN IF ~v.ret THEN [valid |-> FALSE, ret |-> FALSE, board |-> v.board,
                       passes |-> r.passes_in_row]
       ELSE LET a == apply_move(r.name, v.board, r.passes_in_row, p[1], p[2], color)
            IN [valid |-> TRUE, ret |-> a.ret, board |-> a.board,
                passes |-> a.passes]

\* The file holds what command_save writes in this state.
SavedHere ==
    /\ ctlBoard # 0
    /\ rule.name # "none"
    /\ rule.board = ctlBoard
    /\ disk = [exists |-> TRUE, rule |-> rule.name,
               board |-> to_dict(heap[ctlBoard]), current |-> current_idx]

\* C12: loading the file just saved from a state gives an equivalent game:
\* the same variant, grid, log and player to move, and the same result of
\* every next stone placement, pass and undo as without the save and load.
C12_PersistenceRoundTrip ==
    [][last'.op = "load" /\ SavedHere =>
         /\ last'.err = "none"
         /\ rule'.name = rule.name
         /\ heap'[rule'.board].grid = RuleBoard.grid
         /\ heap'[rule'.board].history = RuleBoard.history
         /\ current_idx' = current_idx
         /\ undo(heap'[rule'.board]) = undo(RuleBoard)
         /\ \A p \in MoveInputs \cup {<<PassCoord, PassCoord>>} :
                Outcome(rule', heap'[rule'.board], current_idx', p)
                    = Outcome(rule, RuleBoard, current_idx, p)]_vars

\* C13: Board(N) succeeds exactly for 8 <= N <= 19, giving an N x N grid of
\* empty cells and an empty log, and fails with InvalidSize otherwise without
\* creating a board; place_stone, remove_stones, apply_move and undo never
\* change N or the shape of the grid.
C13_BoardSize ==
    [][LET pre == RuleBoard
           post == heap'[rule'.board]
       IN /\ DOMAIN post.grid = Pos(post.size)
          /\ last'.op # "create" =>
                post.size = pre.size /\ DOMAIN post.grid = DOMAIN pre.grid
          /\ last'.op = "create" =>
                \A size \in CreateSizes :
                    BoardCreate(rule.name, size) =>
                        IF 8 <= size /\ size <= 19
                        THEN /\ last'.err = "none"
                             /\ post.size = size
                             /\ post.grid = [p \in (0 .. size - 1) \X (0 .. size - 1)
                                                |-> EMPTY]
                             /\ post.history = <<>>
                        ELSE /\ last'.err = "InvalidSize"
                             /\ heap' = heap
                             /\ rule' = rule]_vars

\* A board of the largest size has been created and a stone put on it.
C13_Witness ==
    /\ last.op = "place_stone"
    /\ last.err = "none"
    /\ RuleBoard.size = 19

\* C14: after a move or a pass for which apply_move returned terminal, the
\* controller has exited and takes no further command: nothing changes any
\* more, so no placement, pass or undo is applied to that game.
C14_TerminalFinal ==
    [][~(last.op \in {"move", "pass"} /\ last.ret) /\ pc = "running"]_vars

\* A five in a row has ended the game.
C14_Witness ==
    /\ last.op = "move"
    /\ last.ret
    /\ pc = "exited"
    /\ Wins(RuleBoard, <<Top(RuleBoard)[1], Top(RuleBoard)[2]>>, Top(RuleBoard)[3])

\* C15: for every occupied cell p of a board, _group_dfs from p with p's
\* colour returns the maximal 4-connected set of that colour around p, each
\* cell once, and exactly the empty cells next to a member of it.
C15_GroupSearch ==
    rule.name # "none" =>
        \A p \in Pos(RuleBoard.size) :
            RuleBoard.grid[p] \in Colors =>
                LET r == _group_dfs(RuleBoard, p[1], p[2], RuleBoard.grid[p])
                    G == GroupOf(RuleBoard, p)
                IN /\ Range(r.group) = G
                   /\ Len(r.group) = Cardinality(G)
                   /\ r.liberties = LibertiesOf(RuleBoard, G)

\* A Go placement has joined stones into a group of three or more that has
\* two or more liberties.
C15_Witness ==
    /\ last.op = "apply_move"
    /\ rule.name = "go"
    /\ LET p == <<Top(RuleBoard)[1], Top(RuleBoard)[2]>>
       IN /\ Cardinality(GroupOf(RuleBoard, p)) >= 3
          /\ Cardinality(LibertiesOf(RuleBoard, GroupOf(RuleBoard, p))) >= 2

\* C16: a successful undo of the Go engine leaves the pass counter as it was;
\* the counter changes only in apply_move, by one up for a pass and to 0 for a
\* placement; so the pass that follows pass, placement, undo is not terminal.
C16_UndoKeepsPassCounter ==
    [][rule.name = "go" =>
         /\ last'.op = "undo" => rule'.passes_in_row = rule.passes_in_row
         /\ rule'.passes_in_row # rule.passes_in_row =>
               \/ last'.op = "pass"
                     /\ rule'.passes_in_row = rule.passes_in_row + 1
               \/ last'.op = "apply_move" /\ rule'.passes_in_row = 0
         /\ (/\ last.op = "undo" /\ last.err = "none"
             /\ lastApplied = "stone"
             /\ last'.op = "pass") => ~last'.ret]_vars

\* Pass, placement, undo, pass: the game goes on.
C16_Witness ==
    /\ last.op = "pass"
    /\ ~last.ret
    /\ rule.passes_in_row = 1
    /\ applied = 3
    /\ undone = 1
    /\ RuleBoard.history = <<>>

\* C17: on the Go engine's board, reached from the empty board by validated
\* placements, passes and undos, every group of stones has a liberty.
C17_NoDeadStones ==
    rule.name = "go" =>
        \A p \in Pos(RuleBoard.size) :
            RuleBoard.grid[p] \in Colors =>
                LibertiesOf(RuleBoard, GroupOf(RuleBoard, p)) # {}

\* The stone just placed had no liberty until the stones it took were removed.
C17_Witness ==
    /\ last.op = "apply_move"
    /\ rule.name = "go"
    /\ LET rec == Top(RuleBoard)
           p == <<rec[1], rec[2]>>
           before == [RuleBoard EXCEPT !.grid =
                         [q \in Pos(RuleBoard.size) |->
                             IF q \in Range(rec[4]) THEN Other(rec[3])
                             ELSE RuleBoard.grid[q]]]
       IN /\ rec[4] # <<>>
          /\ LibertiesOf(before, GroupOf(before, p)) = {}
          /\ LibertiesOf(RuleBoard, GroupOf(RuleBoard, p)) # {}

\* The grid that the records of `log` give when applied in order to the grid
\* g: the record's colour on its position, its captured positions empty.
RECURSIVE LogGrid(_, _)
LogGrid(g, log) ==
    IF log = <<>> THEN g
    ELSE LogGrid([q \in DOMAIN g |->
                     IF q \in Range(Head(log)[4]) THEN EMPTY
                     ELSE IF q = <<Head(log)[1], Head(log)[2]>> THEN Head(log)[3]
                     ELSE g[q]],
                 Tail(log))

\* The stones on a board.
Stones(b) == {q \in Pos(b.size) : b.grid[q] \in Colors}

\* C18: the grid is the one the log gives when replayed on an empty board,
\* in both variants, and no Gomoku record lists a captured position.
C18_GridFromLog ==
    rule.name # "none" =>
        /\ RuleBoard.grid
             = LogGrid([q \in Pos(RuleBoard.size) |-> EMPTY], RuleBoard.history)
        /\ rule.name = "gomoku" =>
             \A k \in 1 .. Len(RuleBoard.history) : RuleBoard.history[k][4] = <<>>

\* A move made after a capture has been undone: the log still holds the
\* capture, and fewer stones than records are on the board.
C18_Witness ==
    /\ last.op = "undo"
    /\ last.err = "none"
    /\ rule.name = "go"
    /\ RuleBoard.history # <<>>
    /\ Top(RuleBoard)[4] # <<>>
    /\ Cardinality(Stones(RuleBoard)) < Len(RuleBoard.history)

\* C19: in a started game a successful undo gives the move to the player
\* whose colour the popped record holds, a successful move or pass gives it to
\* the mover's opponent, and a rejected move or a failed undo leaves it.
C19_TurnFollowsLog ==
    [][ctlBoard # 0 /\ rule.name # "none" /\ rule.board = ctlBoard =>
         /\ last'.op = "undo" /\ last'.err = "none" =>
               players[current_idx' + 1] = Top(RuleBoard)[3]
         /\ last'.op \in {"move", "pass"} /\ last'.err = "none" /\ ~last'.ret =>
               players[current_idx' + 1] = Other(players[current_idx + 1])
         /\ \/ last'.op = "move" /\ last'.err = "Rejected"
            \/ last'.op = "undo" /\ last'.err = "EmptyHistory"
            => current_idx' = current_idx]_vars

\* C20: the captured list of a record appended by GoRule.apply_move names
\* each captured position once: its length is the number of stones the move
\* removed from the board.
C20_CapturedOnce ==
    [][Placed /\ rule.name = "go" =>
         LET pre == RuleBoard
             post == heap'[rule'.board]
             captured == Top(post)[4]
         IN /\ \A i, j \in 1 .. Len(captured) :
                  captured[i] = captured[j] => i = j
            /\ Len(captured)
                 = Cardinality({q \in Pos(pre.size) :
                                   pre.grid[q] # EMPTY /\ post.grid[q] = EMPTY})]_vars

====
